---- MODULE Spec2Model ----
(***************************************************************************)
(* Model of the AI credit-card statement analyzer (src/app.py): the amount *)
(* normalizer parse_amount, the oracle adapter extract_data_from_file, the *)
(* Streamlit script with its session state (all_statements,                *)
(* processing_complete, last_upload_count), the batch loop and the         *)
(* portfolio aggregates and the results section; and of process_statement  *)
(* of the parser path (src/streamlit_app.py) with its temporary file and   *)
(* the session's parsed_data.                                              *)
(*                                                                         *)
(* Text is a sequence of one-character strings.  A Python float is the     *)
(* decimal it denotes, [neg, mant, exp] = (-1)^neg * mant * 10^exp with    *)
(* mant free of trailing zeros: every amount of the model has fewer than   *)
(* 16 significant digits, the range in which float() and str() of a        *)
(* binary64 are exact on decimals.                                         *)
(***************************************************************************)
EXTENDS Integers, Sequences, FiniteSets, TLC

VARIABLES
    uploaded_files,       \* the file_uploader widget's current value
    all_statements,       \* st.session_state.all_statements
    processing_complete,  \* st.session_state.processing_complete
    last_upload_count,    \* st.session_state.last_upload_count
    pc,                   \* position of the script run
    run_files,            \* the script run's local uploaded_files
    idx,                  \* the batch loop's enumerate index (0-based)
    attempted,            \* names passed to extract_data_from_file this run
    succeeded,            \* records extract_data_from_file returned this run
    errors,               \* st.error texts of this run
    last_call,            \* the latest extract_data_from_file call and result
    shown,                \* the portfolio metrics the run displayed
    views,                \* what else the run's results section has built
    amount_in,            \* parse_amount's argument
    amount_out,           \* parse_amount(amount_in)
    amount_text,          \* str(amount_out)
    amount_back,          \* parse_amount(str(amount_out))
    apc,                  \* position of the amount normalizer run
    ps_pc,                \* position of process_statement
    ps_file,              \* uploaded_file.name of the process_statement call
    temp_files,           \* names whose temp_<name> file exists on disk
    parsed_data,          \* st.session_state.parsed_data
    ps_entry,             \* st.session_state.parsed_data when the call began
    ps_text,              \* process_statement's local text
    ps_bank,              \* process_statement's local bank
    ps_log,               \* st.warning / st.success / st.error of the call
    ps_calls,             \* collaborators the call has invoked, in order
    ps_runs               \* process_statement calls so far

vars == <<uploaded_files, all_statements, processing_complete, last_upload_count,
          pc, run_files, idx, attempted, succeeded, errors, last_call, shown,
          views,
          amount_in, amount_out, amount_text, amount_back, apc,
          ps_pc, ps_file, temp_files, parsed_data, ps_entry, ps_text, ps_bank,
          ps_log, ps_calls, ps_runs>>

batch_vars == <<uploaded_files, all_statements, processing_complete,
                last_upload_count, pc, run_files, idx, attempted, succeeded,
                errors, last_call, shown, views>>

amount_vars == <<amount_in, amount_out, amount_text, amount_back, apc>>

statement_vars == <<ps_pc, ps_file, temp_files, parsed_data, ps_entry, ps_text,
                    ps_bank, ps_log, ps_calls, ps_runs>>

----------------------------------------------------------------------------
(* Bounds                                                                  *)

MaxAmountLen == 6
MaxFiles == 2

----------------------------------------------------------------------------
(* Text helpers                                                            *)

Digits == {"0", "1", "2", "3", "4", "5", "6", "7", "8", "9"}

DigitVal(c) ==
    CASE c = "0" -> 0 [] c = "1" -> 1 [] c = "2" -> 2 [] c = "3" -> 3
      [] c = "4" -> 4 [] c = "5" -> 5 [] c = "6" -> 6 [] c = "7" -> 7
      [] c = "8" -> 8 [] c = "9" -> 9

DigitChar(d) == <<"0", "1", "2", "3", "4", "5", "6", "7", "8", "9">>[d + 1]

RECURSIVE Zeros(_)
Zeros(n) == IF n <= 0 THEN <<>> ELSE <<"0">> \o Zeros(n - 1)

RECURSIVE DigitsOf(_)
\* the decimal digits of a natural number, most significant first
DigitsOf(n) == IF n < 10 THEN <<DigitChar(n)>>
               ELSE DigitsOf(n \div 10) \o <<DigitChar(n % 10)>>

RECURSIVE Pow10(_)
Pow10(n) == IF n <= 0 THEN 1 ELSE 10 * Pow10(n - 1)

----------------------------------------------------------------------------
(* Python floats as decimals                                               *)

Zero == [neg |-> FALSE, mant |-> 0, exp |-> 0]

RECURSIVE Normalize(_)
\* the canonical form of a decimal: no trailing zero in mant, exp 0 for 0
Normalize(v) ==
    IF v.mant = 0 THEN [v EXCEPT !.exp = 0]
    ELSE IF v.mant % 10 = 0
         THEN Normalize([v EXCEPT !.mant = v.mant \div 10, !.exp = v.exp + 1])
         ELSE v

\* Python's == on floats (-0.0 == 0.0)
FloatEq(a, b) == (a.mant = 0 /\ b.mant = 0) \/ a = b

\* Python's < 0 on floats
FloatNegative(a) == a.neg /\ a.mant # 0

Signed(v) == IF v.neg THEN 0 - v.mant ELSE v.mant

\* Python's + on floats
FloatAdd(a, b) ==
    LET e == IF a.exp < b.exp THEN a.exp ELSE b.exp
        s == Signed(a) * Pow10(a.exp - e) + Signed(b) * Pow10(b.exp - e)
    IN  IF s = 0 THEN [neg |-> a.neg /\ b.neg, mant |-> 0, exp |-> 0]
        ELSE Normalize([neg |-> s < 0, mant |-> IF s < 0 THEN 0 - s ELSE s,
                        exp |-> e])

----------------------------------------------------------------------------
(* parse_amount (src/app.py:39-45)                                         *)

\* re.sub(r'[^\d.-]', '', s): keep the digits, "." and "-", in order
ReSub(s) == SelectSeq(s, LAMBDA c : c \in Digits \cup {".", "-"})

RECURSIVE SkipDigits(_, _)
\* the first index >= i of s that holds no digit (Len(s) + 1 when none)
SkipDigits(s, i) ==
    IF i <= Len(s) /\ s[i] \in Digits THEN SkipDigits(s, i + 1) ELSE i

RECURSIVE DigitsValue(_, _)
\* the number a digit string denotes, acc being the value of the digits read
DigitsValue(ds, acc) ==
    IF ds = <<>> THEN acc ELSE DigitsValue(Tail(ds), acc * 10 + DigitVal(Head(ds)))

\* float(s) for a string of digits, "." and "-": a scan of an optional sign,
\* integer digits, an optional point and fraction digits; ValueError unless
\* a digit was read and the scan consumed the whole string
PyFloat(s) ==
    LET start     == IF s # <<>> /\ s[1] = "-" THEN 2 ELSE 1
        intEnd    == SkipDigits(s, start)
        hasPoint  == intEnd <= Len(s) /\ s[intEnd] = "."
        fracStart == IF hasPoint THEN intEnd + 1 ELSE intEnd
        fracEnd   == IF hasPoint THEN SkipDigits(s, fracStart) ELSE intEnd
        ndigits   == (intEnd - start) + (fracEnd - fracStart)
        ds        == SubSeq(s, start, intEnd - 1) \o SubSeq(s, fracStart, fracEnd - 1)
    IN  IF ndigits > 0 /\ fracEnd = Len(s) + 1
        THEN [exc |-> "none",
              val |-> Normalize([neg  |-> start = 2,
                                 mant |-> DigitsValue(ds, 0),
                                 exp  |-> 0 - (fracEnd - fracStart)])]
        ELSE [exc |-> "ValueError", val |-> Zero]

\* str(x) of a float: repr's shortest digits, in fixed notation when the
\* decimal point position decpt satisfies -4 < decpt <= 16, else d.ddde+XX
PyStrFloat(v) ==
    LET ds    == DigitsOf(v.mant)
        n     == Len(ds)
        decpt == n + v.exp
        sign  == IF v.neg THEN <<"-">> ELSE <<>>
        e     == decpt - 1
        ea    == IF e < 0 THEN 0 - e ELSE e
        fixed == IF decpt <= 0 THEN <<"0", ".">> \o Zeros(0 - decpt) \o ds
                 ELSE IF decpt < n
                      THEN SubSeq(ds, 1, decpt) \o <<".">> \o SubSeq(ds, decpt + 1, n)
                      ELSE ds \o Zeros(decpt - n) \o <<".", "0">>
        expo  == <<ds[1]>> \o (IF n > 1 THEN <<".">> \o SubSeq(ds, 2, n) ELSE <<>>)
                 \o <<"e", IF e < 0 THEN "-" ELSE "+">>
                 \o (IF ea < 10 THEN <<"0">> ELSE <<>>) \o DigitsOf(ea)
    IN  IF v.mant = 0 THEN sign \o <<"0", ".", "0">>
        ELSE IF decpt > 0 - 4 /\ decpt <= 16 THEN sign \o fixed
             ELSE sign \o expo

\* parse_amount with the except clause left out: float's ValueError escapes
parse_amount_no_except(amount_str) ==
    LET r == PyFloat(ReSub(amount_str))
    IN  [raised |-> r.exc # "none", val |-> r.val]

\* parse_amount stripping only the letters and blanks, not the symbols
parse_amount_keep_comma(amount_str) ==
    LET r == PyFloat(SelectSeq(amount_str, LAMBDA c : c \in Digits \cup {".", "-", ","}))
    IN  [raised |-> FALSE, val |-> IF r.exc = "none" THEN r.val ELSE Zero]

\* parse_amount(amount_str): [raised, val]; raised is an exception reaching
\* the caller, val the float returned
parse_amount(amount_str) ==
    LET numeric_str == ReSub(amount_str)
        r           == PyFloat(numeric_str)
    IN  IF r.exc = "none" THEN [raised |-> FALSE, val |-> r.val]
        ELSE [raised |-> FALSE, val |-> Zero]

\* the strings handed to parse_amount
AmountAlphabet == {"0", "1", ".", "-", "x"}

NamedAmounts == {
    <<"₹", "1", "2", ",", "3", "4", "5", ".", "6", "7">>,
    <<"a", "b", "c">>,
    <<"-", "5", "0", "0">>,
    <<"$", " ", "1", ",", "0", "0", "0", ".", "5", "0">>,
    <<"9", "9", ".", "9", "9", "-">> }

AmountInputs ==
    NamedAmounts \cup UNION {[1..k -> AmountAlphabet] : k \in 0..MaxAmountLen}

NoAmount == [raised |-> FALSE, val |-> Zero]

InitAmountIdle ==
    /\ amount_in = <<>>
    /\ amount_out = NoAmount
    /\ amount_text = <<>>
    /\ amount_back = NoAmount
    /\ apc = "idle"

\* a caller evaluates parse_amount(amount_in)
ApplyParseAmount ==
    /\ apc = "ready"
    /\ amount_out' = parse_amount(amount_in)
    /\ apc' = IF amount_out'.raised THEN "raised" ELSE "parsed"
    /\ UNCHANGED <<amount_in, amount_text, amount_back>>

\* the caller evaluates parse_amount(str(amount_out))
ReparseAmount ==
    /\ apc = "parsed"
    /\ amount_text' = PyStrFloat(amount_out.val)
    /\ amount_back' = parse_amount(amount_text')
    /\ apc' = "reparsed"
    /\ UNCHANGED <<amount_in, amount_out>>

----------------------------------------------------------------------------
(* JSON values and response text                                           *)

\* A Python dict is its set of keys and the values under them (a field whose
\* key is not in keys holds a filler that no code path reads).
StatementKeys == {"issuer", "total_amount_due", "credit_limit",
                  "available_credit_limit", "transactions"}

EmptyDict == [keys |-> {}, issuer |-> "", total_amount_due |-> <<>>,
              credit_limit |-> <<>>, available_credit_limit |-> <<>>,
              transactions |-> <<>>, filename |-> ""]

\* a JSON value: an object (jtype "object", obj its dict) or anything else
JsonObject(d) == [jtype |-> "object", obj |-> d]
JsonOther(t) == [jtype |-> t, obj |-> EmptyDict]
NoJson == JsonOther("none")

\* Response text is a sequence of tokens: a character, or the serialised
\* text of one JSON value (which starts and ends with none of the characters
\* the adapter looks for: a backquote, a letter of "json", white space).
Ch(c) == [ch |-> c, json |-> NoJson]
Blob(v) == [ch |-> "", json |-> v]
Text(cs) == [i \in 1..Len(cs) |-> Ch(cs[i])]

Whitespace == {" ", "\n", "\t", "\r"}

RECURSIVE LStrip(_)
LStrip(t) == IF t # <<>> /\ t[1].ch \in Whitespace THEN LStrip(Tail(t)) ELSE t

RECURSIVE RStrip(_)
RStrip(t) == IF t # <<>> /\ t[Len(t)].ch \in Whitespace
             THEN RStrip(SubSeq(t, 1, Len(t) - 1)) ELSE t

\* str.strip()
Strip(t) == RStrip(LStrip(t))

\* str.startswith(prefix), prefix a sequence of characters
StartsWith(t, prefix) ==
    /\ Len(t) >= Len(prefix)
    /\ \A i \in 1..Len(prefix) : t[i].ch = prefix[i]

\* str.endswith(suffix)
EndsWith(t, suffix) ==
    /\ Len(t) >= Len(suffix)
    /\ \A i \in 1..Len(suffix) : t[Len(t) - Len(suffix) + i].ch = suffix[i]

\* t[n:]
DropFirst(t, n) == SubSeq(t, n + 1, Len(t))

\* t[:-n]
DropLast(t, n) == SubSeq(t, 1, Len(t) - n)

\* the backquote character (the module's own syntax reserves the glyph)
BQ == "BQ"
Fence == <<BQ, BQ, BQ>>
FenceJson == <<BQ, BQ, BQ, "j", "s", "o", "n">>

\* json.loads(t): white space, one value, white space; JSONDecodeError on
\* anything else
JsonLoads(t) ==
    LET body == Strip(t)
    IN  IF Len(body) = 1 /\ body[1].json.jtype # "none"
        THEN [exc |-> "none", val |-> body[1].json]
        ELSE [exc |-> "JSONDecodeError", val |-> NoJson]

----------------------------------------------------------------------------
(* extract_data_from_file (src/app.py:47-127)                              *)

Lower(ext) ==
    CASE ext = "PDF" -> "pdf" [] ext = "PNG" -> "png" [] ext = "JPG" -> "jpg"
      [] ext = "JPEG" -> "jpeg" [] OTHER -> ext

\* lines 53-58: the type the uploader supplied, else one made from the name
FileType(uploaded_file) ==
    IF uploaded_file.type # "" THEN uploaded_file.type
    ELSE IF Lower(uploaded_file.ext) = "pdf" THEN "application/pdf"
    ELSE IF Lower(uploaded_file.ext) \in {"png", "jpg", "jpeg"}
         THEN "image/" \o Lower(uploaded_file.ext)
    ELSE ""

\* lines 111-116 without the language tag: only the bare fence is removed
StripFences_tag_kept(response_text) ==
    LET t2 == IF StartsWith(response_text, Fence) THEN DropFirst(response_text, 3)
              ELSE response_text
    IN  IF EndsWith(t2, Fence) THEN DropLast(t2, 3) ELSE t2

\* lines 111-116: drop a leading fence with its json tag, a
\* leading fence, a trailing fence
StripFences(response_text) ==
    LET t1 == IF StartsWith(response_text, FenceJson)
              THEN DropFirst(response_text, 7) ELSE response_text
        t2 == IF StartsWith(t1, Fence) THEN DropFirst(t1, 3) ELSE t1
    IN  IF EndsWith(t2, Fence) THEN DropLast(t2, 3) ELSE t2

\* data[filename] = name: TypeError unless data is a dict
SetFilename(v, name) ==
    IF v.jtype = "object"
    THEN [exc |-> "none",
          val |-> [v.obj EXCEPT !.keys = @ \cup {"filename"}, !.filename = name]]
    ELSE [exc |-> "TypeError", val |-> EmptyDict]

\* lines 50-122, the body of the try: the exception raised ("none" when the
\* body returns) and the dict built
ExtractBody(uploaded_file, oracle) ==
    IF oracle.kind = "raises" THEN [exc |-> "APIError", val |-> EmptyDict]
    ELSE IF oracle.kind = "blocked" THEN [exc |-> "ValueError", val |-> EmptyDict]
    ELSE LET response_text == Strip(StripFences(Strip(oracle.text)))
             data          == JsonLoads(response_text)
         IN  IF data.exc # "none" THEN [exc |-> data.exc, val |-> EmptyDict]
             ELSE SetFilename(data.val, uploaded_file.name)

NoneValue == [some |-> FALSE, obj |-> EmptyDict]
NoneText == [some |-> FALSE, text |-> <<>>]

\* the handlers with "except Exception" left out
extract_data_from_file_one_handler(uploaded_file, oracle) ==
    LET r == ExtractBody(uploaded_file, oracle)
    IN  IF r.exc = "none"
        THEN [raised |-> FALSE, data |-> [some |-> TRUE, obj |-> r.val],
              error |-> NoneText]
        ELSE IF r.exc = "JSONDecodeError"
        THEN [raised |-> FALSE, data |-> NoneValue,
              error |-> [some |-> TRUE,
                         text |-> <<"JSON parsing error in ", uploaded_file.name,
                                    ": ", r.exc>>]]
        ELSE [raised |-> TRUE, data |-> NoneValue, error |-> NoneText]

\* extract_data_from_file: (data, None), or (None, error) from the handler
\* of lines 124-125 (JSONDecodeError) or 126-127 (any other Exception)
extract_data_from_file(uploaded_file, oracle) ==
    LET r == ExtractBody(uploaded_file, oracle)
    IN  IF r.exc = "none"
        THEN [raised |-> FALSE, data |-> [some |-> TRUE, obj |-> r.val],
              error |-> NoneText]
        ELSE IF r.exc = "JSONDecodeError"
        THEN [raised |-> FALSE, data |-> NoneValue,
              error |-> [some |-> TRUE,
                         text |-> <<"JSON parsing error in ", uploaded_file.name,
                                    ": ", r.exc>>]]
        ELSE [raised |-> FALSE, data |-> NoneValue,
              error |-> [some |-> TRUE,
                         text |-> <<"Error processing ", uploaded_file.name,
                                    ": ", r.exc>>]]

----------------------------------------------------------------------------
(* Inputs: uploaded files and oracle outcomes                              *)

\* amounts as the oracle writes them ("Amount with currency")
AmtDue == <<"₹", "1", ",", "0", "0", "0", ".", "5", "0">>
AmtLimit == <<"₹", "5", ",", "0", "0", "0">>
AmtAvailable == <<"3", "9", "9", "9", ".", "5", "0">>
AmtFood == <<"1", "2", ".", "5">>
AmtPayment == <<"R", "s", " ", "1", "0", "0">>
AmtMinusDue == <<"-", "5", "0", "0">>
AmtMinusFood == <<"-", "5">>
AmtNoDigits == <<"a", "b", "c">>

\* a transaction dict as the oracle returns it: card is the value of the
\* key the CSV export adds, empty while the dict has no such key
Txn(type, category, amount) ==
    [type |-> type, category |-> category, amount |-> amount, card |-> <<>>]

Categories == {"Food & Dining", "Payment", "Other"}

\* a statement as the prompt asks for it
FullRecord ==
    [EmptyDict EXCEPT !.keys = StatementKeys, !.issuer = "HDFC",
        !.total_amount_due = AmtDue, !.credit_limit = AmtLimit,
        !.available_credit_limit = AmtAvailable,
        !.transactions = <<Txn("Debit", "Food & Dining", AmtFood),
                           Txn("Credit", "Payment", AmtPayment)>>]

\* a statement whose amounts carry a minus sign or no digits
SignedRecord ==
    [EmptyDict EXCEPT !.keys = StatementKeys \ {"available_credit_limit"},
        !.issuer = "ICICI",
        !.total_amount_due = AmtMinusDue, !.credit_limit = AmtNoDigits,
        !.transactions = <<Txn("debit", "Food & Dining", AmtMinusFood)>>]

JsonObjects == {JsonObject(FullRecord), JsonObject(SignedRecord), JsonObject(EmptyDict)}

JsonValues == JsonObjects \cup {JsonOther("array"), JsonOther("number"),
                                JsonOther("string"), JsonOther("null")}

MaxGap == 1

\* runs of white space of at most MaxGap characters
Gaps == UNION {[1..k -> {" ", "\n"}] : k \in 0..MaxGap}

\* a JSON value with an optional opening fence (bare, tagged json, tagged
\* JSON, or tagged after a blank), an optional closing fence and white space
\* anywhere around them
FencedTexts ==
    {Text(lead) \o Text(open) \o Text(gap1) \o <<Blob(v)>> \o Text(gap2)
        \o Text(close) \o Text(trail) :
        lead \in Gaps, gap1 \in Gaps, gap2 \in Gaps, trail \in {<<>>, <<"\n">>},
        open \in {<<>>, Fence, FenceJson}, close \in {<<>>, Fence},
        v \in JsonValues}

OddTexts ==
    {<<>>, Text(<<"S", "o", "r", "r", "y">>), Text(Fence \o Fence),
     Text(<<BQ, BQ, BQ, "J", "S", "O", "N", "\n">>) \o <<Blob(JsonObject(FullRecord))>>
        \o Text(<<"\n">> \o Fence),
     Text(<<BQ, BQ, BQ, " ", "j", "s", "o", "n", "\n">>) \o <<Blob(JsonObject(FullRecord))>>
        \o Text(<<"\n">> \o Fence),
     Text(<<"H", "e", "r", "e", ":", " ">>) \o <<Blob(JsonObject(FullRecord))>>,
     <<Blob(JsonObject(FullRecord)), Blob(JsonObject(EmptyDict))>>}

TextOutcome(t) == [kind |-> "text", text |-> t]
OracleRaises == [kind |-> "raises", text |-> <<>>]
OracleBlocked == [kind |-> "blocked", text |-> <<>>]

\* what model.generate_content / response.text can do
OracleOutcomes ==
    {OracleRaises, OracleBlocked} \cup {TextOutcome(t) : t \in FencedTexts \cup OddTexts}

\* the outcomes drawn in the batch loop
BatchOutcomes ==
    {OracleRaises, TextOutcome(Text(<<"S", "o", "r", "r", "y">>)),
     TextOutcome(<<Blob(JsonOther("array"))>>),
     TextOutcome(<<Blob(JsonObject(SignedRecord))>>),
     TextOutcome(Text(FenceJson \o <<"\n">>) \o <<Blob(JsonObject(FullRecord))>>
                 \o Text(<<"\n">> \o Fence))}

File(name, ext, type) == [name |-> name, ext |-> ext, type |-> type]

\* what st.file_uploader(type=[pdf, png, jpg, jpeg]) can hand over
Files == {File("a.pdf", "pdf", "application/pdf"), File("b.png", "png", ""),
          File("c.jpg", "jpg", ""), File("d.JPEG", "JPEG", ""),
          File("e.jpeg", "jpeg", "image/jpeg")}

\* the files uploaded in the batch session
UploadPool == {File("a.pdf", "pdf", "application/pdf"), File("b.png", "png", "")}

Uploads == UNION {[1..k -> UploadPool] : k \in 0..MaxFiles}

NoResult == [raised |-> FALSE, data |-> NoneValue, error |-> NoneText]

NoCall == [called |-> FALSE, file |-> File("", "", ""), oracle |-> OracleRaises,
           mime |-> "", result |-> NoResult]

\* one call of extract_data_from_file
Call(uploaded_file, oracle) ==
    [called |-> TRUE, file |-> uploaded_file, oracle |-> oracle,
     mime |-> FileType(uploaded_file),
     result |-> extract_data_from_file(uploaded_file, oracle)]

----------------------------------------------------------------------------
(* Portfolio metrics (src/app.py:129-160, 306-320)                         *)

\* dict.get(key, default)
Get(d, key, default) == IF key \in d.keys THEN d[key] ELSE default

RECURSIVE SumAmounts(_, _, _)
\* sum(parse_amount(stmt.get(key, '0')) for stmt in stmts), acc the sum so far
SumAmounts(stmts, key, acc) ==
    IF stmts = <<>> THEN acc
    ELSE SumAmounts(Tail(stmts), key,
                    FloatAdd(acc, parse_amount(Get(Head(stmts), key, <<"0">>)).val))

\* str.lower() on a transaction type
TypeLower(t) ==
    CASE t = "Debit" -> "debit" [] t = "Credit" -> "credit" [] OTHER -> t

RECURSIVE DebitRows(_)
\* lines 131-139: category and parsed amount of every debit transaction
DebitRows(stmts) ==
    IF stmts = <<>> THEN <<>>
    ELSE LET stmt == Head(stmts)
             txns == IF "transactions" \in stmt.keys THEN stmt.transactions ELSE <<>>
             rows == [i \in 1..Len(txns) |->
                        [category |-> txns[i].category,
                         amount   |-> parse_amount(txns[i].amount).val,
                         debit    |-> TypeLower(txns[i].type) = "debit"]]
         IN  SelectSeq(rows, LAMBDA r : r.debit) \o DebitRows(Tail(stmts))

RECURSIVE SumCategory(_, _, _)
SumCategory(rows, category, acc) ==
    IF rows = <<>> THEN acc
    ELSE SumCategory(Tail(rows), category,
                     IF Head(rows).category = category
                     THEN FloatAdd(acc, Head(rows).amount) ELSE acc)

\* create_aggregate_category_chart: None without debit transactions, else
\* the groupby sum of the amounts per category
create_aggregate_category_chart(stmts) ==
    LET rows == DebitRows(stmts)
    IN  [some     |-> rows # <<>>,
         names    |-> {rows[i].category : i \in 1..Len(rows)},
         spending |-> [c \in Categories |-> SumCategory(rows, c, Zero)]]

\* Python's > 0 on floats
FloatPositive(a) == ~a.neg /\ a.mant # 0

\* a utilization cell for which the else branch was taken: nothing divided
NoDivision(text) ==
    [divided |-> FALSE, raised |-> FALSE, num |-> Zero, den |-> Zero,
     shown |-> text]

\* total_due / credit_limit * 100: ZeroDivisionError for a zero divisor, else
\* the percentage, kept as the quotient num / den of the two floats
Divide(total_due, credit_limit) ==
    [divided |-> TRUE, raised |-> credit_limit.mant = 0, num |-> total_due,
     den |-> credit_limit,
     shown |-> IF credit_limit.mant = 0 THEN "ZeroDivisionError" ELSE "percent"]

\* line 174 with the condition left out
ChartUtilization_unguarded(stmt) ==
    Divide(parse_amount(Get(stmt, "total_amount_due", <<"0">>)).val,
           parse_amount(Get(stmt, "credit_limit", <<"0">>)).val)

\* create_card_comparison_chart, lines 166-174: the Utilization % of a card
ChartUtilization(stmt) ==
    LET total_due    == parse_amount(Get(stmt, "total_amount_due", <<"0">>)).val
        credit_limit == parse_amount(Get(stmt, "credit_limit", <<"0">>)).val
    IN  IF FloatPositive(credit_limit) THEN Divide(total_due, credit_limit)
        ELSE NoDivision("0")

\* line 320: avg_utilization
AvgUtilization(total_due, total_credit) ==
    IF FloatPositive(total_credit) THEN Divide(total_due, total_credit)
    ELSE NoDivision("0")

\* line 364: the Utilization cell of the comparison table; the condition
\* reads credit_limit with the default 0, the division with the default 1
TableUtilization(stmt) ==
    IF FloatPositive(parse_amount(Get(stmt, "credit_limit", <<"0">>)).val)
    THEN Divide(parse_amount(Get(stmt, "total_amount_due", <<"0">>)).val,
                parse_amount(Get(stmt, "credit_limit", <<"1">>)).val)
    ELSE NoDivision("N/A")

\* lines 415-422: Credit Utilization on the card's tab
DetailUtilization(stmt) ==
    LET credit_limit_val == parse_amount(Get(stmt, "credit_limit", <<"0">>)).val
        total_due_val    == parse_amount(Get(stmt, "total_amount_due", <<"0">>)).val
    IN  IF FloatPositive(credit_limit_val)
        THEN Divide(total_due_val, credit_limit_val)
        ELSE NoDivision("N/A")

\* lines 164 and 488: the label of a card (no modelled record has card_last_4)
CardId(stmt) == <<Get(stmt, "issuer", "Unknown"), "****">>

\* lines 490-491 writing the card key into the transaction itself
AddCardColumn_in_place(txn, card_id) ==
    [row |-> [txn EXCEPT !.card = card_id], txn |-> [txn EXCEPT !.card = card_id]]

\* lines 490-491: txn_copy = txn.copy(), then the card key set on txn_copy;
\* row is the dict appended to the export, txn the transaction afterwards
AddCardColumn(txn, card_id) ==
    [row |-> [txn EXCEPT !.card = card_id], txn |-> txn]

RECURSIVE ExportTransactions(_)
\* lines 486-492: the rows of the transactions CSV, and the statements as
\* the loop leaves them
ExportTransactions(stmts) ==
    IF stmts = <<>> THEN [rows |-> <<>>, statements |-> <<>>]
    ELSE LET stmt  == Head(stmts)
             txns  == Get(stmt, "transactions", <<>>)
             done  == [i \in 1..Len(txns) |-> AddCardColumn(txns[i], CardId(stmt))]
             after == IF "transactions" \in stmt.keys
                      THEN [stmt EXCEPT !.transactions =
                                [i \in 1..Len(txns) |-> done[i].txn]]
                      ELSE stmt
             rest  == ExportTransactions(Tail(stmts))
         IN  [rows       |-> [i \in 1..Len(txns) |-> done[i].row] \o rest.rows,
              statements |-> <<after>> \o rest.statements]

NoMetrics ==
    [rendered |-> FALSE, total_cards |-> 0, total_due |-> Zero,
     total_credit |-> Zero, total_available |-> Zero,
     chart |-> create_aggregate_category_chart(<<>>)]

\* lines 316-319 with the first statement left out of total_due
PortfolioMetrics_skip_first(stmts) ==
    [rendered        |-> TRUE,
     total_cards     |-> Len(stmts),
     total_due       |-> SumAmounts(Tail(stmts), "total_amount_due", Zero),
     total_credit    |-> SumAmounts(stmts, "credit_limit", Zero),
     total_available |-> SumAmounts(stmts, "available_credit_limit", Zero),
     chart           |-> create_aggregate_category_chart(stmts)]

\* lines 316-319 and 341: the metrics shown for a non-empty all_statements
PortfolioMetrics(stmts) ==
    [rendered        |-> TRUE,
     total_cards     |-> Len(stmts),
     total_due       |-> SumAmounts(stmts, "total_amount_due", Zero),
     total_credit    |-> SumAmounts(stmts, "credit_limit", Zero),
     total_available |-> SumAmounts(stmts, "available_credit_limit", Zero),
     chart           |-> create_aggregate_category_chart(stmts)]

NoViews ==
    [rendered |-> FALSE, avg_utilization |-> NoDivision("0"),
     comparison_chart |-> <<>>, comparison_table |-> <<>>,
     card_details |-> <<>>, all_transactions |-> <<>>]

\* lines 320, 346, 355-365, 415-422 and 486-492: the utilization figures and
\* the export rows the results section builds for a non-empty all_statements
ResultViews(stmts) ==
    [rendered         |-> TRUE,
     avg_utilization  |->
        AvgUtilization(SumAmounts(stmts, "total_amount_due", Zero),
                       SumAmounts(stmts, "credit_limit", Zero)),
     comparison_chart |-> [i \in 1..Len(stmts) |-> ChartUtilization(stmts[i])],
     comparison_table |-> [i \in 1..Len(stmts) |-> TableUtilization(stmts[i])],
     card_details     |-> [i \in 1..Len(stmts) |-> DetailUtilization(stmts[i])],
     all_transactions |-> ExportTransactions(stmts).rows]

----------------------------------------------------------------------------
(* process_statement (src/streamlit_app.py:117-177)                        *)

MaxRuns == 2

\* line 134: len(text) < 100
MinTextLen == 100

\* the keys of the parsers dict (lines 146-152)
BankIds == {"hdfc", "icici", "sbi", "axis", "kotak"}

\* the detector's outcome when no marker matches
Unknown == "unknown"

\* the bank markers a text of the model can carry
TextMarkers == {"hdfc", "sbi", "none"}

\* an extracted text: blank when text.strip() is empty, len its length,
\* marker the bank marker it contains
StatementText(blank, len, marker) == [blank |-> blank, len |-> len, marker |-> marker]

NoText == StatementText(TRUE, 0, "none")

\* what pdfplumber can extract (lines 128-132): nothing, white space only,
\* text below and at the length limit
PdfTexts ==
    {NoText, StatementText(TRUE, MinTextLen, "none")}
    \cup {StatementText(FALSE, len, m) :
            len \in {MinTextLen - 1, MinTextLen}, m \in TextMarkers}

\* what extract_text_with_gemini can return
OcrTexts == {StatementText(FALSE, MinTextLen, m) : m \in TextMarkers}

\* detect_bank(text): the first bank whose marker the text contains, else Unknown
detect_bank(text) == IF text.marker \in BankIds THEN text.marker ELSE Unknown

\* the value None of st.session_state.parsed_data
NoneData == [some |-> FALSE, bank |-> "", transactions |-> "absent",
             insights |-> FALSE]

\* parser.parse(text): a best-effort record, with or without transactions
ParseResults(bank) ==
    {[some |-> TRUE, bank |-> bank, transactions |-> t, insights |-> FALSE] :
        t \in {"absent", "raw"}}

\* lines 161-163: categorize_transactions when the record has transactions,
\* then generate_insights
Enrich(rec) ==
    [rec EXCEPT !.transactions = IF @ = "raw" THEN "categorized" ELSE @,
                !.insights = TRUE]

\* what a Streamlit call (st.warning, st.success, st.error) can do: return,
\* or end the script run with a script-control exception (a stop or rerun
\* request; the exception is a BaseException, not an Exception)
StreamlitOutcomes == {"returns", "ScriptControl"}

\* line 174, except Exception: where an exception raised in the try goes
ExitOf(exc) == IF exc = "Exception" THEN "handler" ELSE "escaped"

\* line 154 as parsers[bank]: KeyError for a bank without a parser
LookupParser_subscript(bank) ==
    [raised |-> bank \notin BankIds, some |-> bank \in BankIds]

\* lines 146-154: parsers.get(bank), None for a bank without a parser
LookupParser(bank) == [raised |-> FALSE, some |-> bank \in BankIds]

\* the names the uploader (type pdf) hands over
UploadNames == {"a.pdf", "b.pdf"}

\* no process_statement call yet (lines 62-63)
InitStatementIdle ==
    /\ ps_pc = "idle"
    /\ ps_file = ""
    /\ temp_files = {}
    /\ parsed_data = NoneData
    /\ ps_entry = NoneData
    /\ ps_text = NoText
    /\ ps_bank = ""
    /\ ps_log = <<>>
    /\ ps_calls = <<>>
    /\ ps_runs = 0

\* a script run with an uploaded file (lines 91-92) calls process_statement,
\* which writes the temporary file (lines 121-124): open() raises, the
\* write raises after open() made the file, or the file is written
StartProcessStatement ==
    /\ ps_pc \in {"idle", "returned", "escaped"}
    /\ ps_runs < MaxRuns
    /\ ps_runs' = ps_runs + 1
    /\ \E name \in UploadNames, outcome \in {"written", "open raises", "write raises"} :
         /\ ps_file' = name
         /\ temp_files' = IF outcome = "open raises" THEN temp_files
                          ELSE temp_files \cup {name}
         /\ ps_pc' = IF outcome = "written" THEN "read" ELSE ExitOf("Exception")
    /\ ps_entry' = parsed_data
    /\ ps_text' = NoText
    /\ ps_bank' = ""
    /\ ps_log' = <<>>
    /\ ps_calls' = <<>>
    /\ UNCHANGED parsed_data

\* lines 127-134: pdfplumber reads the text; any exception goes to the bare
\* except of line 137, a blank or short text to the OCR branch
ReadPdf ==
    /\ ps_pc = "read"
    /\ ps_calls' = Append(ps_calls, "pdfplumber")
    /\ \/ /\ ps_pc' = "ocr fallback"
          /\ UNCHANGED ps_text
       \/ \E text \in PdfTexts :
            /\ ps_text' = text
            /\ ps_pc' = IF text.blank \/ text.len < MinTextLen
                        THEN "ocr scanned" ELSE "detect"
    /\ UNCHANGED <<ps_file, temp_files, parsed_data, ps_entry, ps_bank, ps_log,
                   ps_runs>>

\* lines 135-136, inside the inner try: whatever st.warning or
\* extract_text_with_gemini raises is caught by the bare except of line 137
OcrScanned ==
    /\ ps_pc = "ocr scanned"
    /\ \E warning \in StreamlitOutcomes :
         IF warning # "returns"
         THEN /\ ps_pc' = "ocr fallback"
              /\ UNCHANGED <<ps_text, ps_log, ps_calls>>
         ELSE /\ ps_log' = Append(ps_log, "scanned")
              /\ ps_calls' = Append(ps_calls, "ocr")
              /\ \/ /\ ps_pc' = "ocr fallback"
                    /\ UNCHANGED ps_text
                 \/ \E text \in OcrTexts :
                      /\ ps_text' = text
                      /\ ps_pc' = "detect"
    /\ UNCHANGED <<ps_file, temp_files, parsed_data, ps_entry, ps_bank, ps_runs>>

\* lines 137-139, the bare except: st.warning, then OCR; what is raised here
\* leaves the inner try statement
OcrFallback ==
    /\ ps_pc = "ocr fallback"
    /\ \E warning \in StreamlitOutcomes :
         IF warning # "returns"
         THEN /\ ps_pc' = ExitOf(warning)
              /\ UNCHANGED <<ps_text, ps_log, ps_calls>>
         ELSE /\ ps_log' = Append(ps_log, "using ocr")
              /\ ps_calls' = Append(ps_calls, "ocr")
              /\ \/ /\ ps_pc' = ExitOf("Exception")
                    /\ UNCHANGED ps_text
                 \/ \E text \in OcrTexts :
                      /\ ps_text' = text
                      /\ ps_pc' = "detect"
    /\ UNCHANGED <<ps_file, temp_files, parsed_data, ps_entry, ps_bank, ps_runs>>

\* lines 141-143: detect_bank, then st.success with the bank in upper case
DetectBank ==
    /\ ps_pc = "detect"
    /\ ps_bank' = detect_bank(ps_text)
    /\ ps_calls' = Append(ps_calls, "detect_bank")
    /\ \E success \in StreamlitOutcomes :
         IF success # "returns"
         THEN /\ ps_pc' = ExitOf(success)
              /\ UNCHANGED ps_log
         ELSE /\ ps_log' = Append(ps_log, "detected")
              /\ ps_pc' = "dispatch"
    /\ UNCHANGED <<ps_file, temp_files, parsed_data, ps_entry, ps_text, ps_runs>>

\* lines 146-156 and 166: the parser of the bank, if there is one
Dispatch ==
    /\ ps_pc = "dispatch"
    /\ LET parser == LookupParser(ps_bank)
       IN  ps_pc' = IF parser.raised THEN ExitOf("Exception")
                    ELSE IF parser.some THEN "parse" ELSE "unsupported"
    /\ UNCHANGED <<ps_file, temp_files, parsed_data, ps_entry, ps_text, ps_bank,
                   ps_log, ps_calls, ps_runs>>

\* lines 159-164: parse, categorize the transactions if the record has
\* them, generate the insights, store the record in the session
ParseStatement ==
    /\ ps_pc = "parse"
    /\ \E rec \in ParseResults(ps_bank) :
         /\ ps_calls' = ps_calls \o <<"parse">>
                          \o (IF rec.transactions # "absent" THEN <<"categorize">>
                              ELSE <<>>)
                          \o <<"insights">>
         /\ parsed_data' = Enrich(rec)
    /\ ps_pc' = "display"
    /\ UNCHANGED <<ps_file, temp_files, ps_entry, ps_text, ps_bank, ps_log, ps_runs>>

\* line 165: display_results returns, raises (line 286, astype(float) of an
\* amount that is no number), or is ended at one of its Streamlit calls
DisplayResults ==
    /\ ps_pc = "display"
    /\ ps_calls' = Append(ps_calls, "display_results")
    /\ \E outcome \in {"returns", "Exception", "ScriptControl"} :
         ps_pc' = IF outcome = "returns" THEN "cleanup" ELSE ExitOf(outcome)
    /\ UNCHANGED <<ps_file, temp_files, parsed_data, ps_entry, ps_text, ps_bank,
                   ps_log, ps_runs>>

\* lines 167-168: st.error, bank not supported or not detected
ReportUnsupported ==
    /\ ps_pc = "unsupported"
    /\ \E error \in StreamlitOutcomes :
         IF error # "returns"
         THEN /\ ps_pc' = ExitOf(error)
              /\ UNCHANGED ps_log
         ELSE /\ ps_log' = Append(ps_log, "unsupported")
              /\ ps_pc' = "cleanup"
    /\ UNCHANGED <<ps_file, temp_files, parsed_data, ps_entry, ps_text, ps_bank,
                   ps_calls, ps_runs>>

\* lines 170-172: remove the temporary file, return
CleanUp ==
    /\ ps_pc = "cleanup"
    /\ temp_files' = temp_files \ {ps_file}
    /\ ps_pc' = "returned"
    /\ UNCHANGED <<ps_file, parsed_data, ps_entry, ps_text, ps_bank, ps_log,
                   ps_calls, ps_runs>>

\* lines 174-177, except Exception: st.error, then remove the temporary
\* file if it exists; a script-control exception at st.error leaves the
\* handler before the removal
HandleException ==
    /\ ps_pc = "handler"
    /\ \E error \in StreamlitOutcomes :
         IF error # "returns"
         THEN /\ ps_pc' = "escaped"
              /\ UNCHANGED <<ps_log, temp_files>>
         ELSE /\ ps_log' = Append(ps_log, "error")
              /\ temp_files' = temp_files \ {ps_file}
              /\ ps_pc' = "returned"
    /\ UNCHANGED <<ps_file, parsed_data, ps_entry, ps_text, ps_bank, ps_calls,
                   ps_runs>>

----------------------------------------------------------------------------
(* The Streamlit script (src/app.py:31-37, 267-320)                        *)

\* the batch loop stops appending at this many records (re-executed
\* interrupted runs would otherwise grow all_statements without limit)
MaxStatements == 2

\* lines 280-283 clearing the flag and the count but not the list
ResetOnCountChange_keep_list(count) ==
    IF count # last_upload_count
    THEN [last_upload_count |-> count, all_statements |-> all_statements,
          processing_complete |-> FALSE]
    ELSE [last_upload_count |-> last_upload_count, all_statements |-> all_statements,
          processing_complete |-> processing_complete]

\* lines 280-283: the session state after the upload-count check
ResetOnCountChange(count) ==
    IF count # last_upload_count
    THEN [last_upload_count |-> count, all_statements |-> <<>>,
          processing_complete |-> FALSE]
    ELSE [last_upload_count |-> last_upload_count, all_statements |-> all_statements,
          processing_complete |-> processing_complete]

\* no script run yet: the session state of lines 32-37, the page at rest
InitBatchIdle ==
    /\ uploaded_files = <<>>
    /\ all_statements = <<>>
    /\ processing_complete = FALSE
    /\ last_upload_count = 0
    /\ pc = "idle"
    /\ run_files = <<>>
    /\ idx = 0
    /\ attempted = <<>>
    /\ succeeded = <<>>
    /\ errors = <<>>
    /\ shown = NoMetrics
    /\ views = NoViews

\* lines 32-37
Init ==
    /\ uploaded_files = <<>>
    /\ all_statements = <<>>
    /\ processing_complete = FALSE
    /\ last_upload_count = 0
    /\ pc = "start"
    /\ run_files = <<>>
    /\ idx = 0
    /\ attempted = <<>>
    /\ succeeded = <<>>
    /\ errors = <<>>
    /\ last_call = NoCall
    /\ shown = NoMetrics
    /\ views = NoViews
    /\ InitAmountIdle
    /\ InitStatementIdle

\* a script run from the top to the batch loop or to the results (lines
\* 267-288): read the widget, reset on a changed count, enter the loop unless
\* processing is complete
RunScript ==
    /\ pc \in {"start", "rerun"}
    /\ run_files' = uploaded_files
    /\ idx' = 0
    /\ attempted' = <<>>
    /\ succeeded' = <<>>
    /\ errors' = <<>>
    /\ last_call' = NoCall
    /\ IF uploaded_files # <<>>
       THEN LET session == ResetOnCountChange(Len(uploaded_files))
            IN  /\ last_upload_count' = session.last_upload_count
                /\ all_statements' = session.all_statements
                /\ processing_complete' = session.processing_complete
                /\ pc' = IF ~session.processing_complete THEN "loop" ELSE "display"
       ELSE /\ UNCHANGED <<last_upload_count, all_statements, processing_complete>>
            /\ pc' = "display"
    /\ views' = NoViews
    /\ UNCHANGED <<uploaded_files, shown>>

\* one iteration of the batch loop (lines 290-299)
ProcessFile ==
    /\ pc = "loop"
    /\ idx < Len(run_files)
    /\ Len(all_statements) < MaxStatements
    /\ \E oracle \in BatchOutcomes :
         LET uploaded_file == run_files[idx + 1]
             call          == Call(uploaded_file, oracle)
         IN  /\ last_call' = call
             /\ attempted' = Append(attempted, uploaded_file.name)
             /\ IF call.result.raised
                THEN /\ pc' = "crashed"
                     /\ UNCHANGED <<all_statements, succeeded, errors, idx>>
                ELSE /\ pc' = pc
                     /\ idx' = idx + 1
                     /\ IF call.result.error.some /\ call.result.error.text # <<>>
                        THEN /\ errors' = Append(errors, call.result.error.text)
                             /\ UNCHANGED <<all_statements, succeeded>>
                        ELSE /\ all_statements' = Append(all_statements, call.result.data.obj)
                             /\ succeeded' = Append(succeeded, call.result.data.obj)
                             /\ UNCHANGED errors
    /\ UNCHANGED <<uploaded_files, processing_complete, last_upload_count,
                   run_files, shown, views>>

\* the end of the batch loop (lines 301-304): set the flag, st.rerun()
FinishBatch ==
    /\ pc = "loop"
    /\ idx = Len(run_files)
    /\ processing_complete' = TRUE
    /\ pc' = "rerun"
    /\ UNCHANGED <<uploaded_files, all_statements, last_upload_count, run_files,
                   idx, attempted, succeeded, errors, last_call, shown,
                   views>>

\* the results section (lines 306-515): metrics, charts, comparison table,
\* card tabs and exports; all_statements is what the export loop leaves
Display ==
    /\ pc = "display"
    /\ shown' = IF all_statements # <<>> THEN PortfolioMetrics(all_statements)
                ELSE NoMetrics
    /\ views' = IF all_statements # <<>> THEN ResultViews(all_statements)
                ELSE NoViews
    /\ all_statements' = IF all_statements # <<>>
                         THEN ExportTransactions(all_statements).statements
                         ELSE all_statements
    /\ pc' = "idle"
    /\ UNCHANGED <<uploaded_files, processing_complete,
                   last_upload_count, run_files, idx, attempted, succeeded,
                   errors, last_call>>

\* the user changes the uploaded files while the page is at rest
UserChangesUpload ==
    /\ pc = "idle"
    /\ \E files \in Uploads :
         /\ files # uploaded_files
         /\ uploaded_files' = files
    /\ pc' = "start"
    /\ UNCHANGED <<all_statements, processing_complete, last_upload_count,
                   run_files, idx, attempted, succeeded, errors, last_call,
                   shown, views>>

\* the user stops or re-triggers the script while the batch loop runs: the
\* run ends at a Streamlit call of the loop (lines 291-292, 297, 301-302) and
\* the script starts again, the session state kept
Interrupt ==
    /\ pc = "loop"
    /\ \E files \in Uploads : uploaded_files' = files
    /\ pc' = "start"
    /\ run_files' = <<>>
    /\ idx' = 0
    /\ attempted' = <<>>
    /\ succeeded' = <<>>
    /\ errors' = <<>>
    /\ last_call' = NoCall
    /\ UNCHANGED <<all_statements, processing_complete, last_upload_count,
                   shown, views>>

Next ==
    \/ RunScript /\ UNCHANGED <<amount_vars, statement_vars>>
    \/ ProcessFile /\ UNCHANGED <<amount_vars, statement_vars>>
    \/ FinishBatch /\ UNCHANGED <<amount_vars, statement_vars>>
    \/ Display /\ UNCHANGED <<amount_vars, statement_vars>>
    \/ UserChangesUpload /\ UNCHANGED <<amount_vars, statement_vars>>
    \/ Interrupt /\ UNCHANGED <<amount_vars, statement_vars>>

Spec == Init /\ [][Next]_vars

----------------------------------------------------------------------------
(* extract_data_from_file on its own                                       *)

InitExtract ==
    /\ InitBatchIdle
    /\ InitAmountIdle
    /\ InitStatementIdle
    /\ \E f \in Files, o \in OracleOutcomes :
         last_call = [NoCall EXCEPT !.file = f, !.oracle = o]

\* the batch loop calls extract_data_from_file (line 294)
CallExtract ==
    /\ ~last_call.called
    /\ last_call' = Call(last_call.file, last_call.oracle)
    /\ UNCHANGED <<uploaded_files, all_statements, processing_complete,
                   last_upload_count, pc, run_files, idx, attempted, succeeded,
                   errors, shown, views>>
    /\ UNCHANGED <<amount_vars, statement_vars>>

NextExtract == CallExtract

SpecExtract == InitExtract /\ [][NextExtract]_vars

----------------------------------------------------------------------------
(* The amount normalizer on its own                                        *)

InitAmount ==
    /\ InitBatchIdle
    /\ last_call = NoCall
    /\ amount_in \in AmountInputs
    /\ amount_out = NoAmount
    /\ amount_text = <<>>
    /\ amount_back = NoAmount
    /\ apc = "ready"
    /\ InitStatementIdle

NextAmount ==
    \/ ApplyParseAmount /\ UNCHANGED <<batch_vars, statement_vars>>
    \/ ReparseAmount /\ UNCHANGED <<batch_vars, statement_vars>>

SpecAmount == InitAmount /\ [][NextAmount]_vars

----------------------------------------------------------------------------
(* The results section on its own                                          *)

MaxCards == 2

\* statements with a credit limit that is a number above zero, zero, below
\* zero, no number, or missing, with and without transactions
ResultRecords ==
    {[EmptyDict EXCEPT
        !.keys = {"issuer", "total_amount_due", "credit_limit", "transactions"},
        !.issuer = "HDFC", !.total_amount_due = due, !.credit_limit = limit,
        !.transactions = txns] :
        due \in {AmtDue, AmtMinusDue},
        limit \in {AmtLimit, <<"0">>, AmtMinusDue, AmtNoDigits},
        txns \in {<<>>, <<Txn("Debit", "Food & Dining", AmtFood),
                          Txn("Credit", "Payment", AmtPayment)>>}}
    \cup
    {[EmptyDict EXCEPT !.keys = {"issuer", "total_amount_due"},
        !.issuer = "SBI", !.total_amount_due = due] :
        due \in {AmtDue, AmtMinusDue}}

\* the script reaches the results guard (line 306) with some accumulated list
InitResults ==
    /\ all_statements \in UNION {[1..k -> ResultRecords] : k \in 0..MaxCards}
    /\ uploaded_files = <<>>
    /\ processing_complete = TRUE
    /\ last_upload_count = Len(all_statements)
    /\ pc = "display"
    /\ run_files = <<>>
    /\ idx = 0
    /\ attempted = <<>>
    /\ succeeded = <<>>
    /\ errors = <<>>
    /\ last_call = NoCall
    /\ shown = NoMetrics
    /\ views = NoViews
    /\ InitAmountIdle
    /\ InitStatementIdle

NextResults == Display /\ UNCHANGED <<amount_vars, statement_vars>>

SpecResults == InitResults /\ [][NextResults]_vars

----------------------------------------------------------------------------
(* The parser path on its own (src/streamlit_app.py:62-93, 117-177)        *)

InitStatement ==
    /\ InitBatchIdle
    /\ last_call = NoCall
    /\ InitAmountIdle
    /\ InitStatementIdle

NextStatement ==
    \/ StartProcessStatement /\ UNCHANGED <<batch_vars, amount_vars>>
    \/ ReadPdf /\ UNCHANGED <<batch_vars, amount_vars>>
    \/ OcrScanned /\ UNCHANGED <<batch_vars, amount_vars>>
    \/ OcrFallback /\ UNCHANGED <<batch_vars, amount_vars>>
    \/ DetectBank /\ UNCHANGED <<batch_vars, amount_vars>>
    \/ Dispatch /\ UNCHANGED <<batch_vars, amount_vars>>
    \/ ParseStatement /\ UNCHANGED <<batch_vars, amount_vars>>
    \/ DisplayResults /\ UNCHANGED <<batch_vars, amount_vars>>
    \/ ReportUnsupported /\ UNCHANGED <<batch_vars, amount_vars>>
    \/ CleanUp /\ UNCHANGED <<batch_vars, amount_vars>>
    \/ HandleException /\ UNCHANGED <<batch_vars, amount_vars>>

SpecStatement == InitStatement /\ [][NextStatement]_vars

----------------------------------------------------------------------------
(* Properties                                                              *)

Names(files) == [i \in 1..Len(files) |-> files[i].name]

\* C1: a batch run through the loop attempts every document once in upload
\* order, leaves in all_statements exactly the records of the documents that
\* succeeded, in order, reports one error per failed document, and lets no
\* exception escape.
C1_BatchKeepsExactlyTheSucceeded ==
    /\ pc # "crashed"
    /\ pc \in {"loop", "rerun"} => attempted = SubSeq(Names(run_files), 1, idx)
    /\ pc = "rerun" =>
         /\ attempted = Names(run_files)
         /\ all_statements = succeeded
         /\ Len(errors) + Len(succeeded) = Len(run_files)

\* C2: a script run that finds a non-empty upload whose count differs from
\* last_upload_count empties all_statements, clears processing_complete and
\* records the count, and stands at the first document with none processed.
C2_CountChangeResets ==
    [][(pc \in {"start", "rerun"} /\ uploaded_files # <<>>
          /\ Len(uploaded_files) # last_upload_count)
       => /\ all_statements' = <<>>
          /\ processing_complete' = FALSE
          /\ last_upload_count' = Len(uploaded_files)
          /\ pc' = "loop" /\ idx' = 0 /\ attempted' = <<>>]_vars

\* a run reset the records of a displayed portfolio and stands before the
\* first document of the new set
C2_Witness ==
    /\ pc = "loop" /\ idx = 0 /\ attempted = <<>>
    /\ shown.rendered
    /\ all_statements = <<>> /\ ~processing_complete
    /\ last_upload_count = Len(run_files)

\* C3: extract_data_from_file never raises; it returns a record and no
\* error, or no record and an error text holding the file name; a raising
\* call, unparseable text and a JSON value that is no object give the error.
C3_ExtractReturnsRecordOrNamedError ==
    last_call.called =>
        LET r    == last_call.result
            text == last_call.oracle.text
        IN  /\ ~r.raised
            /\ r.data.some # r.error.some
            /\ r.error.some =>
                 \E i \in 1..Len(r.error.text) : r.error.text[i] = last_call.file.name
            /\ last_call.oracle.kind \in {"raises", "blocked"} => r.error.some
            /\ (\A i \in 1..Len(text) : text[i].json.jtype = "none") => r.error.some
            /\ (\E i \in 1..Len(text) :
                  text[i].json.jtype \notin {"none", "object"}) => r.error.some

\* a JSON array came back and became a named error
C3_Witness ==
    /\ last_call.called
    /\ last_call.oracle = TextOutcome(<<Blob(JsonOther("array"))>>)
    /\ last_call.result.error.some /\ ~last_call.result.data.some

\* the StatementRecord shape: every required field is there
MatchesShape(d) == StatementKeys \subseteq d.keys

\* C4: a response that parses as a JSON object but does not match the
\* StatementRecord shape is an extraction failure: an error is returned and
\* no such record is appended to all_statements.
C4_ShapeMismatchIsFailure ==
    /\ (last_call.called /\ last_call.result.data.some
          /\ ~MatchesShape(last_call.result.data.obj)) => last_call.result.error.some
    /\ \A i \in 1..Len(all_statements) : MatchesShape(all_statements[i])

IsWhite(t) == \A i \in 1..Len(t) : t[i].ch \in {" ", "\n", "\t", "\r"}

\* white space, a fence, an optional json tag, white space
IsOpeningFence(t) ==
    \E i \in 0..Len(t) : \E n \in {3, 7} :
        /\ i + n <= Len(t)
        /\ IsWhite(SubSeq(t, 1, i))
        /\ \A k \in 1..n : t[i + k].ch = FenceJson[k]
        /\ IsWhite(SubSeq(t, i + n + 1, Len(t)))

\* white space, a fence, white space
IsClosingFence(t) ==
    \E i \in 0..Len(t) :
        /\ i + 3 <= Len(t)
        /\ IsWhite(SubSeq(t, 1, i))
        /\ \A k \in 1..3 : t[i + k].ch = BQ
        /\ IsWhite(SubSeq(t, i + 4, Len(t)))

\* the text is the JSON value v inside a code fence
IsFenced(t, v) ==
    \E k \in 1..Len(t) :
        /\ t[k] = Blob(v)
        /\ IsOpeningFence(SubSeq(t, 1, k - 1))
        /\ IsClosingFence(SubSeq(t, k + 1, Len(t)))

\* C5: a JSON object wrapped in a code fence, with or without the json tag
\* and with any white space around, is parsed into the record of the bare
\* object.
C5_FencedObjectParsesLikeBare ==
    (last_call.called /\ last_call.oracle.kind = "text") =>
        \A v \in JsonObjects :
            IsFenced(last_call.oracle.text, v) =>
                /\ last_call.result.data.some
                /\ ~last_call.result.error.some
                /\ last_call.result.data.obj =
                       [v.obj EXCEPT !.keys = @ \cup {"filename"},
                                     !.filename = last_call.file.name]
                /\ last_call.result =
                       extract_data_from_file(last_call.file, TextOutcome(<<Blob(v)>>))

\* a tagged fence on lines of its own around a full record was parsed
C5_Witness ==
    /\ last_call.called
    /\ last_call.oracle.text =
         Text(FenceJson \o <<"\n">>) \o <<Blob(JsonObject(FullRecord))>>
            \o Text(<<"\n">> \o Fence)
    /\ last_call.result.data.some
    /\ last_call.result.data.obj.total_amount_due = AmtDue

RECURSIVE Count(_, _)
\* how many characters of s lie in set
Count(s, set) ==
    IF s = <<>> THEN 0
    ELSE (IF Head(s) \in set THEN 1 ELSE 0) + Count(Tail(s), set)

RECURSIVE Keep(_)
\* s without the characters that are no digit, "." or "-"
Keep(s) ==
    IF s = <<>> THEN <<>>
    ELSE IF Head(s) \in Digits \cup {".", "-"} THEN <<Head(s)>> \o Keep(Tail(s))
         ELSE Keep(Tail(s))

\* the digits of s after its first "."
FractionDigits(s) ==
    IF \E i \in 1..Len(s) : s[i] = "."
    THEN Len(s) - (CHOOSE i \in 1..Len(s) : s[i] = "." /\ \A j \in 1..(i - 1) : s[j] # ".")
    ELSE 0

\* a decimal number: a digit, at most one ".", a "-" only in front
IsNumber(s) ==
    /\ Count(s, Digits) >= 1
    /\ Count(s, {"."}) <= 1
    /\ Count(s, {"-"}) <= 1
    /\ Count(s, {"-"}) = 1 => s[1] = "-"

\* C6: parse_amount never raises; it drops every character that is no digit,
\* "." or "-", returns the decimal the rest denotes, and 0.0 when the rest
\* is no number (empty, two points, a repeated or misplaced minus).
C6_ParseAmountTotal ==
    apc # "ready" =>
        LET kept == Keep(amount_in)
        IN  /\ apc # "raised" /\ ~amount_out.raised
            /\ ~IsNumber(kept) => amount_out.val = Zero
            /\ IsNumber(kept) =>
                 /\ amount_out.val.neg = (kept[1] = "-")
                 /\ amount_out.val.mant * Pow10(amount_out.val.exp + FractionDigits(kept))
                      = DigitsValue(SelectSeq(kept, LAMBDA c : c \in Digits), 0)

\* a string with a misplaced minus was parsed to 0.0
C6_Witness ==
    /\ apc = "parsed"
    /\ amount_in = <<"9", "9", ".", "9", "9", "-">>
    /\ amount_out = [raised |-> FALSE, val |-> Zero]

\* C7: parse_amount maps a currency string to the value of its digits: the
\* rupee string 12,345.67 to 12345.67, abc to 0.0, -500 to -500.0.
C7_ParseAmountExamples ==
    apc # "ready" =>
        /\ amount_in = <<"₹", "1", "2", ",", "3", "4", "5", ".", "6", "7">>
             => amount_out.val = [neg |-> FALSE, mant |-> 1234567, exp |-> 0 - 2]
        /\ amount_in = <<"a", "b", "c">> => amount_out.val = Zero
        /\ amount_in = <<"-", "5", "0", "0">>
             => amount_out.val = [neg |-> TRUE, mant |-> 5, exp |-> 2]
        /\ amount_in = <<"$", " ", "1", ",", "0", "0", "0", ".", "5", "0">>
             => amount_out.val = [neg |-> FALSE, mant |-> 10005, exp |-> 0 - 1]
        /\ (Count(amount_in, {".", "-"}) = 0 /\ Count(amount_in, Digits) > 0)
             => /\ ~amount_out.val.neg
                /\ amount_out.val.mant * Pow10(amount_out.val.exp)
                     = DigitsValue(SelectSeq(amount_in, LAMBDA c : c \in Digits), 0)

\* the rupee string was parsed to 12345.67
C7_Witness ==
    /\ apc = "parsed"
    /\ amount_in = <<"₹", "1", "2", ",", "3", "4", "5", ".", "6", "7">>
    /\ amount_out.val.mant = 1234567

\* C8: parse_amount(str(parse_amount(x))) equals parse_amount(x) for every
\* input x.
C8_ParseAmountIdempotent ==
    apc = "reparsed" => FloatEq(amount_back.val, amount_out.val)

\* C9: every amount in an aggregate (total due, credit limit, available
\* credit, spending per category) is a non-negative magnitude.
C9_AmountsNonNegative ==
    shown.rendered =>
        /\ ~FloatNegative(shown.total_due)
        /\ ~FloatNegative(shown.total_credit)
        /\ ~FloatNegative(shown.total_available)
        /\ \A c \in Categories : ~FloatNegative(shown.chart.spending[c])

\* a float in hundredths (every amount of the batch has at most two decimals)
Hundredths(v) == Signed(v) * Pow10(v.exp + 2)

\* what a record adds to the total of a field, in hundredths: nothing when
\* the field is missing or holds no number
Contribution(stmt, key) ==
    IF key \notin stmt.keys THEN 0
    ELSE IF ~IsNumber(Keep(stmt[key])) THEN 0
    ELSE Hundredths(parse_amount(stmt[key]).val)

RECURSIVE Total(_, _)
Total(stmts, key) ==
    IF stmts = <<>> THEN 0
    ELSE Contribution(stmts[Len(stmts)], key)
           + Total(SubSeq(stmts, 1, Len(stmts) - 1), key)

C11_ResultsLeaveStatementsUnchanged ==
    [][pc = "display" => all_statements' = all_statements]_vars

\* the transactions CSV was built: its rows carry the card column, the
\* transactions of the accumulated statements do not
C11_Witness ==
    /\ pc = "idle"
    /\ views.rendered
    /\ views.all_transactions # <<>>
    /\ \A r \in 1..Len(views.all_transactions) :
         views.all_transactions[r].card # <<>>
    /\ \E i \in 1..Len(all_statements) :
         /\ all_statements[i].transactions # <<>>
         /\ all_statements[i].transactions[1].card = <<>>

\* a utilization cell follows the rule for a total due and a credit limit
\* given in hundredths
UtilizationRule(cell, due, limit, fallback) ==
    /\ ~cell.raised
    /\ IF limit > 0
       THEN /\ cell.divided
            /\ cell.shown = "percent"
            /\ Hundredths(cell.num) = due
            /\ Hundredths(cell.den) = limit
       ELSE /\ ~cell.divided
            /\ cell.shown = fallback

\* C16: utilization is total due / credit limit * 100 exactly when the
\* normalized credit limit is above zero; otherwise nothing is divided and
\* the cell shows N/A (comparison table, card tab) or 0 (comparison chart,
\* portfolio average); no division by zero takes place.
C16_UtilizationDividesOnlyByPositiveLimit ==
    (pc = "idle" /\ views.rendered) =>
        /\ Len(views.comparison_chart) = Len(all_statements)
        /\ Len(views.comparison_table) = Len(all_statements)
        /\ Len(views.card_details) = Len(all_statements)
        /\ \A i \in 1..Len(all_statements) :
             LET due   == Contribution(all_statements[i], "total_amount_due")
                 limit == Contribution(all_statements[i], "credit_limit")
             IN  /\ UtilizationRule(views.comparison_chart[i], due, limit, "0")
                 /\ UtilizationRule(views.comparison_table[i], due, limit, "N/A")
                 /\ UtilizationRule(views.card_details[i], due, limit, "N/A")
        /\ UtilizationRule(views.avg_utilization,
                           Total(all_statements, "total_amount_due"),
                           Total(all_statements, "credit_limit"), "0")

\* a card with a positive limit was divided (1000.50 by 5000), a card whose
\* limit is present but not above zero was not, the portfolio was
C16_Witness ==
    /\ pc = "idle"
    /\ views.rendered
    /\ \E i, j \in 1..Len(all_statements) :
         /\ views.comparison_table[i].shown = "percent"
         /\ Hundredths(views.comparison_table[i].num) = 100050
         /\ Hundredths(views.comparison_table[i].den) = 500000
         /\ "credit_limit" \in all_statements[j].keys
         /\ views.comparison_table[j].shown = "N/A"
         /\ views.comparison_chart[j].shown = "0"
    /\ views.avg_utilization.shown = "percent"

\* the MIME types the oracle takes
OracleMimeTypes == {"application/pdf", "image/png", "image/jpeg"}

\* C13: the MIME type extract_data_from_file sends to the oracle with the
\* document bytes is application/pdf, image/png or image/jpeg, for every file
\* the uploader accepts, with or without a MIME type of its own.
C13_MimeTypeIsAccepted ==
    last_call.called => last_call.mime \in OracleMimeTypes

\* C14: once a script run has read the upload, the accumulated statements
\* list never holds more records than there are uploaded documents, also
\* when an interrupted run is executed again with the same document count.
C14_AtMostOneRecordPerDocument ==
    pc \in {"loop", "rerun", "display", "idle"} =>
        Len(all_statements) <= Len(uploaded_files)

\* C15: when processing is complete for a non-empty upload, every
\* accumulated record was extracted from a document that is uploaded now,
\* whatever upload changes came before.
C15_RecordsComeFromUploadedDocuments ==
    (pc \in {"display", "idle"} /\ processing_complete /\ uploaded_files # <<>>) =>
        \A i \in 1..Len(all_statements) :
            \E j \in 1..Len(uploaded_files) :
                all_statements[i].filename = uploaded_files[j].name

Has(seq, x) == \E i \in 1..Len(seq) : seq[i] = x

\* C12: when the detector's outcome is Unknown, process_statement does not
\* enter its exception handler and reports no processing error, invokes no
\* parser, categorizer or insight generator, leaves the session's parsed_data
\* as it was when the call began, and has reported the document as not
\* supported when it returns.
C12_UnknownBankIsReportedUnsupported ==
    ps_bank = Unknown =>
        /\ ps_pc \notin {"handler", "parse"}
        /\ ~Has(ps_log, "error")
        /\ ~Has(ps_calls, "parse")
        /\ ~Has(ps_calls, "categorize")
        /\ ~Has(ps_calls, "insights")
        /\ parsed_data = ps_entry
        /\ (ps_pc = "returned" => Has(ps_log, "unsupported"))

\* a statement of an unknown bank was processed to the end while the session
\* held the record of an earlier statement
C12_Witness ==
    /\ ps_pc = "returned"
    /\ ps_bank = Unknown
    /\ Has(ps_calls, "detect_bank")
    /\ Has(ps_log, "unsupported")
    /\ ps_entry.some
    /\ parsed_data = ps_entry

\* C17: no exception leaves process_statement, and when it has returned the
\* temporary file written for the uploaded document does not exist.
C17_TempFileRemovedNothingEscapes ==
    /\ ps_pc # "escaped"
    /\ (ps_pc = "returned" => ps_file \notin temp_files)

====
